---- MODULE Spec2Model ----
(***************************************************************************)
(* A model of xkey.c: the window walker (find_matched_windows), the target *)
(* selector (snoop_windows), the key translator (TranslateKeyCode) and the *)
(* capture loop of main.                                                   *)
(*                                                                         *)
(* C strings are sequences of one-character strings; NUL is the byte that  *)
(* terminates them.  A char* is a record [null, s]: the pointer is NULL or *)
(* points to the string s.                                                 *)
(***************************************************************************)
EXTENDS Integers, Sequences, FiniteSets, TLC

\* Bounds of the model.
MaxWindows == 3      \* windows below the root, startup specification
MainWindows == 1     \* windows below the root, whole-program specification
MaxEvents == 2       \* events delivered to the capture loop
ScopeWindows == 2    \* windows below the root, subscription-scope specification

\* ------------------------------------------------------------------ strings

NUL == "NUL"

NullPtr == [null |-> TRUE, s |-> <<>>]

Ptr(str) == [null |-> FALSE, s |-> str]

\* The index of the first NUL among bytes[lo..hi], or hi + 1 when there is none.
RECURSIVE FirstNulIn(_, _, _)
FirstNulIn(bytes, lo, hi) ==
    IF lo > hi THEN hi + 1
    ELSE IF lo = hi THEN (IF bytes[lo] = NUL THEN lo ELSE hi + 1)
    ELSE LET mid == (lo + hi) \div 2
             l   == FirstNulIn(bytes, lo, mid)
         IN  IF l <= mid THEN l ELSE FirstNulIn(bytes, mid + 1, hi)

FirstNul(bytes) == FirstNulIn(bytes, 1, Len(bytes))

\* The C string stored at the start of a byte sequence: the bytes before the
\* first NUL.
CStr(bytes) == SubSeq(bytes, 1, FirstNul(bytes) - 1)

\* strstr(haystack, needle) != NULL
StrStr(haystack, needle) ==
    \E i \in 0..(Len(haystack) - Len(needle)) :
        SubSeq(haystack, i + 1, i + Len(needle)) = needle

\* ------------------------------------------------------------------ the X server

Root == 0

\* The title properties a window can carry: _NET_WM_NAME and WM_NAME, each
\* absent or a string.
NoProp == [present |-> FALSE, val |-> <<>>]

Prop(str) == [present |-> TRUE, val |-> str]

PropPool ==
    { [net |-> NoProp,            wm |-> NoProp],
      [net |-> Prop(<<>>),        wm |-> Prop(<<"a">>)],
      [net |-> Prop(<<"a">>),     wm |-> NoProp],
      [net |-> NoProp,            wm |-> Prop(<<"b", "a">>)] }

RootPropPool ==
    { [net |-> NoProp,        wm |-> NoProp],
      [net |-> Prop(<<"a">>), wm |-> NoProp] }

\* argv[2]; the empty designator is the default main takes when argc is 2.
DesignatorPool == { <<"a">>, <<"b">>, <<"a", "b">> }

NoWindow == -1

\* The window trees with n windows below the root: the parent of window w is
\* a window created before it.
Trees(n) == [1..n -> 0..n] \cap { f \in [1..n -> 0..n] : \A w \in 1..n : f[w] < w }

VARIABLES
    parent,            \* server: parent of every window below the root
    props,             \* server: title properties of every window
    queryFails,        \* server: the window whose XQueryTree fails, or NoWindow
    keymap,            \* server: the keys a KeyPress event can carry
    argc,              \* main's argc
    argvName,          \* argv[2] when argc >= 3
    designated_name,   \* main's designated_name
    pc,                \* position of the process in main
    exitCode,          \* status passed to exit(), -1 while running
    matched_windows,   \* the global array
    matched_count,     \* the global counter
    foundAnyMatches,   \* main's foundAnyMatches
    stack,             \* activation records of the recursive walkers
    visited,           \* windows the walker has name-tested, in order
    selectCalls,       \* XSelectInput calls made, in order
    eventMask,         \* server: the event mask this client selected per window
    disk,              \* contents of keylog.txt on disk
    fp,                \* main's FILE *fp: open or not, and its unflushed output
    console,           \* everything printed to stdout
    key_buff,          \* the static scratch buffer, up to the last byte stored
    oob,               \* TRUE once a byte was stored past the end of key_buff
    xev,               \* main's XEvent xev
    time_str,          \* main's time_str
    ks,                \* the string main's ks points to
    clock,             \* what time() and localtime() returned last
    nevents,           \* events XNextEvent has returned
    records,           \* per event received: its type and key, the text sent
                       \* to fp and the fragment TranslateKeyCode returned for
                       \* it once it was called
    logAt,             \* the file contents each time the loop came to XNextEvent
    heap               \* per name getWindowName returned: the call that allocated
                       \* it and the calls that released it, in order

server == << parent, props, queryFails, keymap >>

args == << argc, argvName, designated_name >>

walk == << matched_windows, matched_count, foundAnyMatches, stack, visited,
           selectCalls, eventMask >>

io == << disk, fp, console, key_buff, oob, xev, time_str, ks, clock, nevents,
         records, logAt >>

vars == << parent, props, queryFails, keymap, argc, argvName, designated_name, pc,
           exitCode, matched_windows, matched_count, foundAnyMatches, stack,
           visited, selectCalls, eventMask, disk, fp, console, key_buff, oob,
           xev, time_str, ks, clock, nevents, records, logAt, heap >>

Windows == {Root} \cup DOMAIN parent

\* The set as an increasing sequence.
RECURSIVE Sorted(_)
Sorted(S) ==
    IF S = {} THEN <<>>
    ELSE LET m == CHOOSE x \in S : \A y \in S : x <= y
         IN  <<m>> \o Sorted(S \ {m})

ServerChildren(w) == Sorted({ c \in DOMAIN parent : parent[c] = w })

\* XQueryTree(d, w, ...): the status and the children returned.
XQueryTree(w) ==
    IF w = queryFails THEN [status |-> 0, children |-> <<>>]
    ELSE [status |-> 1, children |-> ServerChildren(w)]

\* A string the caller has to release: the pointer and the call that
\* allocated it, strdup (line 75) or XFetchName (line 82).
Owned(str, by) == [null |-> FALSE, s |-> str, by |-> by]

\* The name was released by one call of XFree (lines 139 and 311).
Released(h, wname) == Append(h, [by |-> wname.by, released |-> <<"XFree">>])

\* getWindowName trying WM_NAME first.
getWindowName_legacyFirst(w) ==
    IF props[w].wm.present THEN Owned(props[w].wm.val, "XFetchName")
    ELSE IF props[w].net.present THEN Owned(CStr(props[w].net.val), "strdup")
    ELSE NullPtr

\* getWindowName returning a placeholder for a window without title.
getWindowName_placeholder(w) ==
    IF props[w].net.present THEN Owned(CStr(props[w].net.val), "strdup")
    ELSE IF props[w].wm.present THEN Owned(props[w].wm.val, "XFetchName")
    ELSE Owned(<<"?">>, "strdup")

\* getWindowName(disp, w)
getWindowName(w) ==
    IF props[w].net.present THEN Owned(CStr(props[w].net.val), "strdup")
    ELSE IF props[w].wm.present THEN Owned(props[w].wm.val, "XFetchName")
    ELSE NullPtr

\* The match by strcmp(wname, designated) == 0 instead of strstr.
nameMatchesDesignated_exact(wname, designated) ==
    IF wname.null \/ wname.s = <<>> THEN FALSE
    ELSE IF designated = <<>> THEN FALSE
    ELSE wname.s = designated

\* nameMatchesDesignated(wname, designated), called with a non-NULL designated
nameMatchesDesignated(wname, designated) ==
    IF wname.null \/ wname.s = <<>> THEN FALSE
    ELSE IF designated = <<>> THEN FALSE
    ELSE StrStr(wname.s, designated)

KeyPressMask == "KeyPressMask"

FocusChangeMask == "FocusChangeMask"

\* A selection that asks for key presses only.
XSelectInput_keysOnly(mask, w, m) == [mask EXCEPT ![w] = {KeyPressMask}]

\* XSelectInput(d, w, mask) replaces this client's mask on w.
XSelectInput(mask, w, m) == [mask EXCEPT ![w] = m]

\* ------------------------------------------------------------------ files and text

LF == "\n"

Banner ==
    << "K", "e", "y", "l", "o", "g", "g", "e", "r", " ",
       "s", "t", "a", "r", "t", "e", "d", LF >>

UnknownTime == << "U", "n", "k", "n", "o", "w", "n", "T", "i", "m", "e" >>

Digits == << "0", "1", "2", "3", "4", "5", "6", "7", "8", "9" >>

HexDigits == Digits \o << "a", "b", "c", "d", "e", "f" >>

\* printf's %lx
RECURSIVE Hex(_)
Hex(n) == IF n < 16 THEN <<HexDigits[n + 1]>>
          ELSE Hex(n \div 16) \o <<HexDigits[(n % 16) + 1]>>

\* snprintf(buf, buflen, "%s", str): at most buflen - 1 characters are kept.
Snprintf(buflen, str) ==
    IF Len(str) <= buflen - 1 THEN str ELSE SubSeq(str, 1, buflen - 1)

\* strftime "%Y-%m-%d %H:%M:%S" of a time inside the first minute of the epoch.
StrfTime(t) ==
    << "1", "9", "7", "0", "-", "0", "1", "-", "0", "1", " ",
       "0", "0", ":", "0", "0", ":" >>
    \o << Digits[(t \div 10) + 1], Digits[(t % 10) + 1] >>

TimeBufLen == 64

\* What time() returns and whether localtime() succeeds.
TimeOutcomes ==
    { [time |-> -1, tm |-> FALSE],
      [time |-> 5,  tm |-> FALSE],
      [time |-> 5,  tm |-> TRUE] }

\* getTimeStr without the check of localtime's result.
getTimeStr_unchecked(o, buflen) ==
    IF o.time = -1 THEN Snprintf(buflen, UnknownTime)
    ELSE Snprintf(buflen, StrfTime(o.time))

\* getTimeStr(buf, buflen)
getTimeStr(o, buflen) ==
    IF o.time = -1 THEN Snprintf(buflen, UnknownTime)
    ELSE IF ~o.tm THEN Snprintf(buflen, UnknownTime)
    ELSE Snprintf(buflen, StrfTime(o.time))

\* The contents keylog.txt can have before the run.
OldLogPool == { <<>>, << "o", "l", "d", LF >> }

Closed == [open |-> FALSE, buf |-> <<>>]

\* An fprintf that ends what it prints with a newline.
Fprintf_line(f, text) == [f EXCEPT !.buf = @ \o text \o <<LF>>]

\* fprintf(fp, ...): the text goes to the stream's buffer.
Fprintf(f, text) == [f EXCEPT !.buf = @ \o text]

\* A stream whose buffer is dropped instead of written.
Fclose_unflushed(file, f) == file

\* fclose(fp): the file after the stream's buffer was written to it.
Fclose(file, f) == file \o f.buf

\* The format of line 308: "\n[%s] FocusIn: %s\n".
FocusLogLine(tstr, name) ==
    <<LF, "[">> \o tstr
      \o << "]", " ", "F", "o", "c", "u", "s", "I", "n", ":", " " >>
      \o name \o <<LF>>

\* The format of line 304: "\n[%s] FocusIn: 0x%lx => %s\n".
FocusConsoleLine(tstr, win, name) ==
    <<LF, "[">> \o tstr
      \o << "]", " ", "F", "o", "c", "u", "s", "I", "n", ":", " ", "0", "x" >>
      \o Hex(win) \o << " ", "=", ">", " " >> \o name \o <<LF>>

\* ------------------------------------------------------------------ keys

KEY_BUFF_SIZE == 256

\* A key event: whether it is one, the bytes XLookupString has for it and the
\* name XKeysymToString has for its keysym.
KeyA == [pressed |-> TRUE, chars |-> <<"a">>, sym |-> Ptr(<<"a">>)]

KeyReturn == [pressed |-> TRUE, chars |-> <<>>, sym |-> Ptr(<< "R", "e", "t", "u", "r", "n" >>)]

KeyNoSymbol == [pressed |-> TRUE, chars |-> <<>>, sym |-> NullPtr]

\* Control-space: XLookupString yields the single byte 0.
KeyCtrlSpace == [pressed |-> TRUE, chars |-> <<NUL>>, sym |-> Ptr(<< "s", "p", "a", "c", "e" >>)]

\* A keysym rebound (XRebindKeysym) to a string that fills the buffer.
KeyRebound ==
    [pressed |-> TRUE, chars |-> [i \in 1..KEY_BUFF_SIZE |-> "x"],
     sym |-> Ptr(<<"F", "1">>)]

KeyPool == { KeyA, KeyReturn, KeyNoSymbol, KeyCtrlSpace, KeyRebound }

\* The keys of a keyboard mapping without rebound keysyms.
PlainKeys == { KeyA, KeyReturn, KeyNoSymbol, KeyCtrlSpace }

\* The key member of an event that is not a key event.
NoKey == [pressed |-> FALSE, chars |-> <<>>, sym |-> NullPtr]

\* What a read past the end of key_buff can find before the next 0 byte.
TailPool == { <<>>, <<"?">> }

\* XLookupString(xk, buffer, nbytes, &ks, NULL): the bytes stored, at most nbytes.
XLookupString(key, nbytes) ==
    IF Len(key.chars) <= nbytes THEN key.chars ELSE SubSeq(key.chars, 1, nbytes)

\* The buffer after bytes were stored from index 0 on.  The buffer is kept
\* up to the last byte ever stored; static storage starts as zeros, so every
\* byte behind it is 0.
Store(buf, bytes) == bytes \o SubSeq(buf, Len(bytes) + 1, Len(buf))

\* The buffer after byte b was stored at index i < KEY_BUFF_SIZE.
StoreAt(buf, i, b) ==
    IF i + 1 <= Len(buf) THEN [buf EXCEPT ![i + 1] = b]
    ELSE buf \o [j \in 1..(i - Len(buf)) |-> NUL] \o <<b>>

Bracketed(name) == <<"<">> \o name \o <<">">>

UnknownKey ==
    << "<", "U", "n", "k", "n", "o", "w", "n", "K", "e", "y", ">" >>

\* TranslateKeyCode(ev): the buffer afterwards, whether the terminator was
\* stored past its end, and the string the returned pointer reads as, given
\* what lies behind the buffer.
TranslateKeyCode(buf, key, tail) ==
    LET looked == XLookupString(key, KEY_BUFF_SIZE)
        count  == Len(looked)
        buf1   == Store(buf, looked)
        over   == ~(count < KEY_BUFF_SIZE)
        buf2   == IF over THEN buf1 ELSE StoreAt(buf1, count, NUL)
        buf3   == IF count = 0
                  THEN IF ~key.sym.null
                       THEN Store(buf2, Snprintf(KEY_BUFF_SIZE, Bracketed(key.sym.s))
                                        \o <<NUL>>)
                       ELSE Store(buf2, Snprintf(KEY_BUFF_SIZE, UnknownKey) \o <<NUL>>)
                  ELSE buf2
    IN  [ buf  |-> buf3,
          over |-> over,
          str  |-> IF FirstNul(buf3) <= KEY_BUFF_SIZE THEN CStr(buf3)
                   ELSE buf3 \o tail ]

\* ------------------------------------------------------------------ startup

InitWith(n, rootPool, oldLogs, keys) ==
    /\ \E k \in 0..n : parent \in Trees(k)
    /\ \E rp \in rootPool, wp \in [DOMAIN parent -> PropPool] :
           props = [w \in Windows |-> IF w = Root THEN rp ELSE wp[w]]
    /\ queryFails \in {NoWindow} \cup Windows
    /\ keymap = keys
    /\ argc \in 1..3
    /\ argvName \in (IF argc = 3 THEN DesignatorPool ELSE {<<>>})
    /\ designated_name = <<>>
    /\ pc = "main"
    /\ exitCode = -1
    /\ matched_windows = <<>>
    /\ matched_count = 0
    /\ foundAnyMatches = 0
    /\ stack = <<>>
    /\ visited = <<>>
    /\ selectCalls = <<>>
    /\ eventMask = [w \in Windows |-> {}]
    /\ disk \in oldLogs
    /\ fp = Closed
    /\ console = <<>>
    /\ key_buff = <<>>
    /\ oob = FALSE
    /\ xev = [type |-> "None", window |-> NoWindow, key |-> NoKey]
    /\ time_str = <<>>
    /\ ks = <<>>
    /\ clock = [time |-> -1, tm |-> FALSE]
    /\ nevents = 0
    /\ records = <<>>
    /\ logAt = <<>>
    /\ heap = <<>>

\* main, lines 247-255: the argument check.
CheckArgs ==
    /\ pc = "main"
    /\ IF argc < 2
       THEN /\ pc' = "exit"
            /\ exitCode' = 1
            /\ UNCHANGED designated_name
       ELSE /\ pc' = "connect"
            /\ designated_name' = (IF argc >= 3 THEN argvName ELSE <<>>)
            /\ UNCHANGED exitCode
    /\ UNCHANGED << heap, server, argc, argvName, walk, io >>

\* A main that goes on to the discovery when the display cannot be opened.
OpenDisplay_continue ==
    /\ pc = "connect"
    /\ \E ok \in BOOLEAN :
           IF ok THEN pc' = "find" /\ UNCHANGED exitCode
           ELSE pc' = "find" /\ exitCode' = 10
    /\ UNCHANGED << heap, server, args, walk, io >>

\* main, lines 257-262: XOpenDisplay.
OpenDisplay ==
    /\ pc = "connect"
    /\ \E ok \in BOOLEAN :
           IF ok THEN pc' = "find" /\ UNCHANGED exitCode
           ELSE pc' = "exit" /\ exitCode' = 10
    /\ UNCHANGED << heap, server, args, walk, io >>

\* A walker that recurses into no window below the root's children.
Call_rootOnly(stk, w) ==
    LET q == XQueryTree(w)
    IN  IF w # Root \/ q.status = 0 \/ Len(q.children) = 0 THEN stk
        ELSE Append(stk, [win |-> w, children |-> q.children, i |-> 1])

\* A call of a recursive walker on window w: it returns at once when the
\* query fails or reports no children, and otherwise gets an activation
\* record with its loop index at the first child.
Call(stk, w) ==
    LET q == XQueryTree(w)
    IN  IF q.status = 0 \/ Len(q.children) = 0 THEN stk
        ELSE Append(stk, [win |-> w, children |-> q.children, i |-> 1])

\* A loop that does not advance its index.
Advance_stuck(stk) == stk

\* The activation record on top, with its loop index advanced.
Advance(stk) == [stk EXCEPT ![Len(stk)].i = @ + 1]

\* A walker that tests the name of the window it is called on.
FindEnter_rootTested ==
    /\ pc = "find"
    /\ stack' = Call(stack, Root)
    /\ pc' = IF stack' = <<>> THEN "select" ELSE "walk"
    /\ visited' = Append(visited, Root)
    /\ IF nameMatchesDesignated(getWindowName(Root), designated_name)
       THEN /\ matched_count' = matched_count + 1
            /\ matched_windows' = Append(matched_windows, Root)
       ELSE UNCHANGED << matched_count, matched_windows >>
    /\ UNCHANGED << heap, server, args, exitCode, foundAnyMatches, selectCalls,
                    eventMask, io >>

\* snoop_windows line 163: find_matched_windows(root, designated).
FindEnter ==
    /\ pc = "find"
    /\ stack' = Call(stack, Root)
    /\ pc' = IF stack' = <<>> THEN "select" ELSE "walk"
    /\ UNCHANGED << heap, server, args, exitCode, matched_windows, matched_count,
                    foundAnyMatches, visited, selectCalls, eventMask, io >>

\* A walker that puts a match at the front of the array.
FindVisit_prepend ==
    /\ pc = "walk"
    /\ stack # <<>>
    /\ LET top == stack[Len(stack)]
       IN  /\ top.i <= Len(top.children)
           /\ LET child == top.children[top.i]
                  wname == getWindowName(child)
              IN  /\ visited' = Append(visited, child)
                  /\ heap' = IF wname.null THEN heap ELSE Released(heap, wname)
                  /\ IF ~wname.null /\ nameMatchesDesignated(wname, designated_name)
                     THEN /\ matched_count' = matched_count + 1
                          /\ matched_windows' = <<child>> \o matched_windows
                     ELSE UNCHANGED << matched_count, matched_windows >>
                  /\ stack' = Call(Advance(stack), child)
    /\ UNCHANGED << server, args, pc, exitCode, foundAnyMatches, selectCalls,
                    eventMask, io >>

\* find_matched_windows, lines 127-144: one iteration of the loop, up to the
\* entry of the recursive call.
FindVisit ==
    /\ pc = "walk"
    /\ stack # <<>>
    /\ LET top == stack[Len(stack)]
       IN  /\ top.i <= Len(top.children)
           /\ LET child == top.children[top.i]
                  wname == getWindowName(child)
              IN  /\ visited' = Append(visited, child)
                  /\ heap' = IF wname.null THEN heap ELSE Released(heap, wname)
                  /\ IF ~wname.null /\ nameMatchesDesignated(wname, designated_name)
                     THEN /\ matched_count' = matched_count + 1
                          /\ matched_windows' = Append(matched_windows, child)
                     ELSE UNCHANGED << matched_count, matched_windows >>
                  /\ stack' = Call(Advance(stack), child)
    /\ UNCHANGED << server, args, pc, exitCode, foundAnyMatches, selectCalls,
                    eventMask, io >>

\* find_matched_windows, lines 146-150: the loop is over, the call returns.
FindReturn ==
    /\ pc = "walk"
    /\ stack # <<>>
    /\ stack[Len(stack)].i > Len(stack[Len(stack)].children)
    /\ stack' = SubSeq(stack, 1, Len(stack) - 1)
    /\ pc' = IF stack' = <<>> THEN "select" ELSE "walk"
    /\ UNCHANGED << heap, server, args, exitCode, matched_windows, matched_count,
                    foundAnyMatches, visited, selectCalls, eventMask, io >>

\* A targeted branch that selects input on no window.
SelectAll_none(mask, ws) == mask

\* The loop of lines 171-174 over the matched windows.
RECURSIVE SelectAll(_, _)
SelectAll(mask, ws) ==
    IF ws = <<>> THEN mask
    ELSE SelectAll(XSelectInput(mask, Head(ws), {KeyPressMask, FocusChangeMask}),
                   Tail(ws))

\* snoop_windows, lines 165-175: the targeted branch.
SelectMatched ==
    /\ pc = "select"
    /\ matched_count > 0
    /\ foundAnyMatches' = 1
    /\ eventMask' = SelectAll(eventMask, SubSeq(matched_windows, 1, matched_count))
    /\ selectCalls' = selectCalls \o SubSeq(matched_windows, 1, matched_count)
    /\ pc' = "openlog"
    /\ UNCHANGED << heap, server, args, exitCode, matched_windows, matched_count,
                    stack, visited, io >>

\* snoop_windows, lines 176-188: the fallback branch queries the root.
FallbackEnter ==
    /\ pc = "select"
    /\ ~(matched_count > 0)
    /\ foundAnyMatches' = 0
    /\ stack' = Call(stack, Root)
    /\ pc' = IF stack' = <<>> THEN "openlog" ELSE "fallback"
    /\ UNCHANGED << heap, server, args, exitCode, matched_windows, matched_count,
                    visited, selectCalls, eventMask, io >>

\* snoop_windows lines 189-209 and recursive_select lines 201-205: one
\* iteration of either loop, up to the entry of the recursive call.
FallbackVisit ==
    /\ pc = "fallback"
    /\ stack # <<>>
    /\ LET top == stack[Len(stack)]
       IN  /\ top.i <= Len(top.children)
           /\ LET child == top.children[top.i]
              IN  /\ eventMask' = XSelectInput(eventMask, child,
                                               {KeyPressMask, FocusChangeMask})
                  /\ selectCalls' = Append(selectCalls, child)
                  /\ stack' = Call(Advance(stack), child)
    /\ UNCHANGED << heap, server, args, pc, exitCode, matched_windows, matched_count,
                    foundAnyMatches, visited, io >>

\* recursive_select line 206 and snoop_windows line 210: the loop is over.
FallbackReturn ==
    /\ pc = "fallback"
    /\ stack # <<>>
    /\ stack[Len(stack)].i > Len(stack[Len(stack)].children)
    /\ stack' = SubSeq(stack, 1, Len(stack) - 1)
    /\ pc' = IF stack' = <<>> THEN "openlog" ELSE "fallback"
    /\ UNCHANGED << heap, server, args, exitCode, matched_windows, matched_count,
                    foundAnyMatches, visited, selectCalls, eventMask, io >>

Startup ==
    \/ CheckArgs
    \/ OpenDisplay
    \/ FindEnter
    \/ FindVisit
    \/ FindReturn
    \/ SelectMatched
    \/ FallbackEnter
    \/ FallbackVisit
    \/ FallbackReturn

\* ------------------------------------------------------------------ the capture loop

\* main, lines 269-276: the log is truncated and gets its banner.
OpenLog ==
    /\ pc = "openlog"
    /\ \E ok \in BOOLEAN :
           IF ok
           THEN /\ disk' = Fclose(<<>>, Fprintf([open |-> TRUE, buf |-> <<>>], Banner))
                /\ logAt' = Append(logAt, disk')
                /\ pc' = "await"
                /\ UNCHANGED exitCode
           ELSE /\ pc' = "exit"
                /\ exitCode' = 1
                /\ UNCHANGED << disk, logAt >>
    /\ UNCHANGED << heap, server, args, walk, fp, console, key_buff, oob, xev,
                    time_str, ks, clock, nevents, records >>

\* The windows this client selected input on.
Monitoring == { w \in Windows : eventMask[w] # {} }

\* The events the server can deliver to this client.
Deliverable ==
    { e \in [type : {"FocusIn", "FocusOut", "KeyPress"}, window : Monitoring,
             key : keymap \cup {NoKey}] :
        /\ (e.type = "KeyPress") = (e.key # NoKey)
        /\ e.type = "KeyPress" => KeyPressMask \in eventMask[e.window]
        /\ e.type # "KeyPress" => FocusChangeMask \in eventMask[e.window] }

\* main, line 282: XNextEvent returns the next event.
NextEvent ==
    /\ pc = "await"
    /\ nevents < MaxEvents
    /\ \E e \in Deliverable :
           /\ xev' = e
           /\ records' = Append(records, [type |-> e.type, key |-> e.key,
                                              text |-> <<>>, frag |-> <<>>,
                                              translated |-> FALSE])
    /\ nevents' = nevents + 1
    /\ pc' = "reopen"
    /\ UNCHANGED << heap, server, args, walk, exitCode, disk, fp, console, key_buff,
                    oob, time_str, ks, clock, logAt >>

\* A loop that opens the log with mode "w".
Reopen_truncate ==
    /\ pc = "reopen"
    /\ \E ok \in BOOLEAN :
           IF ok
           THEN /\ fp' = [open |-> TRUE, buf |-> <<>>]
                /\ disk' = <<>>
                /\ pc' = "dispatch"
                /\ UNCHANGED exitCode
           ELSE /\ pc' = "exit"
                /\ exitCode' = 1
                /\ UNCHANGED << fp, disk >>
    /\ UNCHANGED << heap, server, args, walk, console, key_buff, oob, xev,
                    time_str, ks, clock, nevents, records, logAt >>

\* main, lines 284-289: the log is opened for append.
Reopen ==
    /\ pc = "reopen"
    /\ \E ok \in BOOLEAN :
           IF ok
           THEN /\ fp' = [open |-> TRUE, buf |-> <<>>]
                /\ pc' = "dispatch"
                /\ UNCHANGED exitCode
           ELSE /\ pc' = "exit"
                /\ exitCode' = 1
                /\ UNCHANGED fp
    /\ UNCHANGED << heap, server, args, walk, disk, console, key_buff, oob, xev,
                    time_str, ks, clock, nevents, records, logAt >>

\* The text the iteration sent to fp, noted for the event it handles.
Noted(recs, text) == [recs EXCEPT ![Len(recs)].text = @ \o text]

\* The fragment the translator returned, noted for the event it handles.
Translated(recs, str) ==
    [recs EXCEPT ![Len(recs)].frag = str, ![Len(recs)].translated = TRUE]

\* main, lines 291-312: a FocusIn event.
HandleFocusIn ==
    /\ pc = "dispatch"
    /\ xev.type = "FocusIn"
    /\ LET focusedWin == xev.window
           wname == getWindowName(focusedWin)
       IN  IF ~wname.null /\ wname.s # <<>>
           THEN \E o \in TimeOutcomes :
                   /\ clock' = o
                   /\ time_str' = getTimeStr(o, TimeBufLen)
                   /\ console' = console
                                   \o FocusConsoleLine(time_str', focusedWin, wname.s)
                   /\ fp' = Fprintf(fp, FocusLogLine(time_str', wname.s))
                   /\ records' = Noted(records, FocusLogLine(time_str', wname.s))
           ELSE UNCHANGED << clock, time_str, console, fp, records >>
    /\ heap' = (LET wname == getWindowName(xev.window)
                IN  IF wname.null THEN heap ELSE Released(heap, wname))
    /\ pc' = "close"
    /\ UNCHANGED << server, args, walk, exitCode, disk, key_buff, oob, xev, ks,
                    nevents, logAt >>

\* main, lines 313-325: a KeyPress event.
HandleKeyPress ==
    /\ pc = "dispatch"
    /\ xev.type # "FocusIn"
    /\ xev.type = "KeyPress"
    /\ \E tail \in TailPool :
          \E r \in { TranslateKeyCode(key_buff, xev.key, tail) } :
              /\ r.over \/ tail = <<>>
              /\ key_buff' = r.buf
              /\ oob' = (oob \/ r.over)
              /\ ks' = r.str
              /\ console' = console \o r.str
              /\ fp' = Fprintf(fp, r.str)
              /\ records' = Noted(Translated(records, r.str), r.str)
    /\ pc' = "close"
    /\ UNCHANGED << heap, server, args, walk, exitCode, disk, xev, time_str, clock,
                    nevents, logAt >>

\* A loop that gives up on an event it does not know.
HandleOther_exit ==
    /\ pc = "dispatch"
    /\ xev.type # "FocusIn"
    /\ xev.type # "KeyPress"
    /\ pc' = "exit"
    /\ exitCode' = 1
    /\ UNCHANGED << heap, server, args, walk, io >>

\* main, lines 291-325: an event that is neither FocusIn nor KeyPress.
HandleOther ==
    /\ pc = "dispatch"
    /\ xev.type # "FocusIn"
    /\ xev.type # "KeyPress"
    /\ pc' = "close"
    /\ UNCHANGED << heap, server, args, walk, exitCode, io >>

\* An iteration that ends by emptying the match set.
CloseLog_rescan ==
    /\ pc = "close"
    /\ disk' = Fclose(disk, fp)
    /\ fp' = Closed
    /\ logAt' = Append(logAt, disk')
    /\ pc' = "await"
    /\ matched_windows' = <<>>
    /\ matched_count' = 0
    /\ UNCHANGED << heap, server, args, foundAnyMatches, stack, visited, selectCalls,
                    eventMask, exitCode, console, key_buff, oob, xev, time_str,
                    ks, clock, nevents, records >>

\* main, lines 327-328: fclose writes the stream's buffer to the file.
CloseLog ==
    /\ pc = "close"
    /\ disk' = Fclose(disk, fp)
    /\ fp' = Closed
    /\ logAt' = Append(logAt, disk')
    /\ pc' = "await"
    /\ UNCHANGED << heap, server, args, walk, exitCode, console, key_buff, oob, xev,
                    time_str, ks, clock, nevents, records >>

LoopPcs == { "await", "reopen", "dispatch", "close" }

\* The process is terminated from outside: what it had not flushed is lost.
Kill ==
    /\ pc \in LoopPcs
    /\ pc' = "killed"
    /\ fp' = Closed
    /\ UNCHANGED << heap, server, args, walk, exitCode, disk, console, key_buff, oob,
                    xev, time_str, ks, clock, nevents, records, logAt >>

Loop ==
    \/ OpenLog
    \/ NextEvent
    \/ Reopen
    \/ HandleFocusIn
    \/ HandleKeyPress
    \/ HandleOther
    \/ CloseLog
    \/ Kill

\* ------------------------------------------------------------------ specifications

Init == InitWith(MainWindows, {[net |-> NoProp, wm |-> NoProp]}, OldLogPool, PlainKeys)

Next == Startup \/ Loop

Spec == Init /\ [][Next]_vars

\* The steps of one loop iteration after XNextEvent returned (lines 284-328):
\* straight-line code the process runs whenever it is scheduled.  The arrival
\* of an event and Kill are the environment's.
Step == Reopen \/ HandleFocusIn \/ HandleKeyPress \/ HandleOther \/ CloseLog

FairSpec == Spec /\ WF_vars(Step)

\* The whole program on a display with one window below the root and a
\* keyboard mapping that has a rebound keysym.
InitKeys ==
    /\ InitWith(1, {[net |-> NoProp, wm |-> NoProp]}, {<<>>}, KeyPool)
    /\ DOMAIN parent = {1}
    /\ queryFails = NoWindow
    /\ argc = 3

SpecKeys == InitKeys /\ [][Next]_vars

InitStartup == InitWith(MaxWindows, RootPropPool, {<<>>}, PlainKeys)

\* The startup of a run given a designator, on a display where child
\* enumeration succeeds everywhere or fails on the root or on the first
\* window.
InitWalk ==
    /\ InitWith(MaxWindows, RootPropPool, {<<>>}, PlainKeys)
    /\ argc = 3
    /\ queryFails \in {NoWindow, Root, 1}

SpecWalk == InitWalk /\ [][Startup]_vars

\* Another client gives a window a title or takes it away while the capture
\* loop runs; the loop reads the title of the moment (line 297).
RenamePool == { [net |-> NoProp, wm |-> NoProp], [net |-> Prop(<<"a">>), wm |-> NoProp] }

Rename ==
    /\ pc \in LoopPcs
    /\ \E w \in DOMAIN parent, p \in RenamePool :
           /\ props[w] # p
           /\ props' = [props EXCEPT ![w] = p]
    /\ UNCHANGED << parent, queryFails, keymap, args, pc, exitCode, walk, io,
                    heap >>

\* The whole program, started with the designator "a", on a display whose
\* windows are renamed while the loop runs.
InitChurn ==
    /\ InitWith(MainWindows, {[net |-> NoProp, wm |-> NoProp]}, {<<>>}, {KeyA})
    /\ queryFails = NoWindow
    /\ argc = 3
    /\ argvName = <<"a">>

NextChurn == Next \/ Rename

SpecChurn == InitChurn /\ [][NextChurn]_vars

\* The resolved name of a window, by the two-tier lookup: the _NET_WM_NAME
\* title when present, else the WM_NAME title.
Named(w) == props[w].net.present \/ props[w].wm.present

NameOf(w) == IF props[w].net.present THEN props[w].net.val ELSE props[w].wm.val

\* The whole program, started with the designator "a" on a display with up
\* to ScopeWindows windows below the root, every window with a title, the
\* root's being "a", every child enumeration succeeding, and a keyboard with
\* the one key "a".
InitScope ==
    /\ InitWith(ScopeWindows, RootPropPool, {<<>>}, {KeyA})
    /\ \A w \in Windows : Named(w)
    /\ queryFails = NoWindow
    /\ argc = 3
    /\ argvName = <<"a">>

SpecScope == InitScope /\ [][Next]_vars

SpecStartup == InitStartup /\ [][Startup]_vars

\* ------------------------------------------------------------------ properties

\* s contains the non-empty string d as a substring.
Contains(s, d) ==
    /\ d # <<>>
    /\ \E i \in 1..Len(s) : \E j \in i..Len(s) : SubSeq(s, i, j) = d

\* The window hierarchy: the windows reached from the root by repeated
\* child enumeration, a failed enumeration yielding no children.
RECURSIVE Enumerated(_)
Enumerated(w) ==
    IF w = Root THEN TRUE
    ELSE parent[w] # queryFails /\ Enumerated(parent[w])

Hierarchy == { w \in DOMAIN parent : Enumerated(w) }

\* The windows of the hierarchy whose name contains the designator.
Matching ==
    { w \in Hierarchy : Named(w) /\ Contains(NameOf(w), designated_name) }

Range(s) == { s[i] : i \in 1..Len(s) }

NoDuplicate(s) == \A i, j \in 1..Len(s) : i # j => s[i] # s[j]

\* snoop_windows has returned.
SelectionDone ==
    \/ pc \in {"openlog", "killed"} \cup LoopPcs
    \/ pc = "exit" /\ exitCode = 1 /\ argc >= 2

\* C1: when some window of the hierarchy has a name containing the
\* designator, the windows input was selected on after snoop_windows are
\* exactly the windows whose name contains it, wherever they sit in the tree.
C1_TargetedSelection ==
    (SelectionDone /\ Matching # {}) => Monitoring = Matching

\* A match nested below another match, a match below a window that does not
\* match, and a window left out of the Monitoring set.
C1_Witness ==
    /\ pc = "openlog"
    /\ \E m1, m2 \in Matching : parent[m2] = m1
    /\ \E m \in Matching : parent[m] \in Hierarchy \ Matching
    /\ Monitoring = Matching

\* C2: when no window name contains the designator (as with the empty
\* designator), input is selected on every window of the hierarchy and
\* foundAnyMatches is 0; the fallback branch is taken exactly when the Match
\* set is empty.
C2_FallbackSelection ==
    SelectionDone =>
        /\ Matching = {} => (Monitoring = Hierarchy /\ foundAnyMatches = 0)
        /\ (foundAnyMatches = 0) <=> (Range(matched_windows) = {})
        /\ (foundAnyMatches = 0) <=> (Matching = {})

\* The empty designator on a hierarchy of named windows two levels deep.
C2_Witness ==
    /\ pc = "openlog"
    /\ designated_name = <<>>
    /\ \E w \in Hierarchy : Named(w) /\ NameOf(w) # <<>> /\ parent[w] # Root
    /\ Monitoring = Hierarchy
    /\ foundAnyMatches = 0

\* The work the walkers have left: two steps for every window not yet
\* visited, one for every call not yet returned.
WalkRank == 2 * (Cardinality(Hierarchy) - Len(visited)) + Len(stack)

FallbackRank == 2 * (Cardinality(Hierarchy) - Len(selectCalls)) + Len(stack)

\* C3: on every finite acyclic hierarchy, also an empty one and one with a
\* failing child query, the walk of find_matched_windows and the fallback
\* walk end (every step lowers a natural number, and while a walk runs it
\* has an activation record, whose loop either visits its next child or
\* returns), and they visit every window at most once, so that the Match set
\* holds no handle twice.
C3_WalkTerminates ==
    /\ [](/\ NoDuplicate(visited)
          /\ NoDuplicate(matched_windows)
          /\ NoDuplicate(selectCalls)
          /\ Range(visited) \subseteq Hierarchy
          /\ Range(selectCalls) \subseteq Hierarchy
          /\ pc = "walk" => WalkRank >= 1
          /\ pc = "fallback" => FallbackRank >= 1
          /\ pc \in {"walk", "fallback"} =>
                 /\ stack # <<>>
                 /\ stack[Len(stack)].i <= Len(stack[Len(stack)].children) + 1)
    /\ [][/\ pc = "walk" => WalkRank' < WalkRank /\ WalkRank' >= 0
          /\ pc = "fallback" => FallbackRank' < FallbackRank /\ FallbackRank' >= 0
          /\ pc = "find" => pc' \in {"walk", "select"}
          /\ pc = "select" => pc' \in {"fallback", "openlog"}]_vars

\* Both walks are over on a hierarchy with a failing child query below which
\* windows exist, every enumerated window visited once by each.
C3_Witness ==
    /\ pc = "openlog"
    /\ queryFails \in Hierarchy
    /\ \E w \in DOMAIN parent : parent[w] = queryFails
    /\ Cardinality(Hierarchy) >= 2
    /\ Len(visited) = Cardinality(Hierarchy)
    /\ Len(selectCalls) = Cardinality(Hierarchy)

\* The walks are over at once on a root without children.
C3_WitnessEmpty == pc = "openlog" /\ DOMAIN parent = {} /\ visited = <<>>

\* C4: after snoop_windows has returned the Monitoring set is empty only if
\* the hierarchy is empty.
C4_MonitoringNonEmpty ==
    SelectionDone => (Monitoring = {} => Hierarchy = {})

\* The loop has handled an event of a hierarchy with a window.
C4_Witness ==
    /\ pc = "await"
    /\ nevents > 0
    /\ Hierarchy # {}
    /\ Monitoring # {}

\* The timestamp of a record written at the time the clock returned: the
\* formatted time, or the placeholder when the time could not be retrieved.
Stamp(o) == IF o.time # -1 /\ o.tm THEN StrfTime(o.time) ELSE UnknownTime

FocusInText == << "]", " ", "F", "o", "c", "u", "s", "I", "n", ":", " " >>

\* The line "[T] FocusIn: N".
FocusRecordLine(o, name) ==
    <<"[">> \o Stamp(o) \o FocusInText \o name \o <<LF>>

\* The iteration that handled a FocusIn event on a window with a non-empty
\* name ends: its output reaches the log.
FocusIterationEnds ==
    /\ pc = "close"
    /\ pc' = "await"
    /\ xev.type = "FocusIn"
    /\ Named(xev.window)
    /\ NameOf(xev.window) # <<>>

\* C5 as stated: the iteration of a focus-in event on a window named N adds
\* exactly the one line "[T] FocusIn: N" to the log and nothing else.
C5_AsStated ==
    [][FocusIterationEnds =>
          disk' = disk \o FocusRecordLine(clock, NameOf(xev.window))]_vars

\* C5, amended: the iteration of a focus-in event on a window named N adds
\* to the log a newline followed by the one line "[T] FocusIn: N", T being
\* the placeholder UnknownTime when the time cannot be retrieved; what the
\* log held before is kept and nothing else is added.
C5_FocusRecord ==
    [][FocusIterationEnds =>
          disk' = disk \o <<LF>> \o FocusRecordLine(clock, NameOf(xev.window))]_vars

\* A focus record was written after a key fragment, at a time that could be
\* retrieved.
C5_Witness ==
    /\ pc = "await"
    /\ Len(records) = 2
    /\ records[1].type = "KeyPress" /\ records[1].text # <<>>
    /\ records[2].type = "FocusIn" /\ records[2].text # <<>>
    /\ clock.time # -1 /\ clock.tm
    /\ disk = Banner \o records[1].text \o <<LF>>
                \o FocusRecordLine(clock, NameOf(xev.window))

\* The fragments of events i..j, one after the other.
RECURSIVE Fragments(_, _)
Fragments(i, j) ==
    IF i > j THEN <<>> ELSE records[i].frag \o Fragments(i + 1, j)

\* C6: over any run of consecutive key-press events the log grows by the
\* concatenation of their fragments and by nothing else: logAt[k] is the log
\* before iteration k and logAt[k + 1] the log after it.
C6_KeyStream ==
    \A i \in 1..(Len(logAt) - 1) : \A j \in i..(Len(logAt) - 1) :
        (\A k \in i..j : records[k].type = "KeyPress")
            => logAt[j + 1] = logAt[i] \o Fragments(i, j)

\* Two key presses in a row, a printable key and a key with a symbolic name.
C6_Witness ==
    /\ pc = "await"
    /\ Len(logAt) = 3
    /\ records[1].type = "KeyPress" /\ records[1].frag = <<"a">>
    /\ records[2].type = "KeyPress" /\ records[2].frag = Bracketed(KeyReturn.sym.s)
    /\ disk = Banner \o <<"a">> \o Bracketed(KeyReturn.sym.s)

\* C7: the fragment TranslateKeyCode returns is never empty; it is the
\* characters of the lookup when there are any, the bracketed symbolic name
\* when there are none and the key has a name, and "<UnknownKey>" otherwise.
C7_TranslatorOutput ==
    (pc = "close" /\ xev.type = "KeyPress") =>
        /\ ks # <<>>
        /\ xev.key.chars # <<>> => ks = xev.key.chars
        /\ (xev.key.chars = <<>> /\ ~xev.key.sym.null)
               => ks = <<"<">> \o xev.key.sym.s \o <<">">>
        /\ (xev.key.chars = <<>> /\ xev.key.sym.null) => ks = UnknownKey

\* The text sent to the log by the iterations of events 1..k.
RECURSIVE TextUpTo(_)
TextUpTo(k) == IF k = 0 THEN <<>> ELSE TextUpTo(k - 1) \o records[k].text

\* The loop has exited or was killed.
LoopEnded == pc = "killed" \/ (pc = "exit" /\ nevents > 0)

\* C8: while the loop awaits the next event no log handle is open and the
\* log holds the record of every event handled before; wherever the process
\* is terminated, the log lacks at most the record of the event being
\* handled.
C8_Durability ==
    /\ pc = "await" =>
          /\ ~fp.open
          /\ fp.buf = <<>>
          /\ disk = Banner \o TextUpTo(Len(records))
    /\ (pc \in LoopPcs \/ LoopEnded) =>
          \E k \in { Len(records) - 1, Len(records) } \cap Nat :
              disk = Banner \o TextUpTo(k)

\* Killed while handling the second event: its record is lost, the first
\* event's record is in the log.
C8_Witness ==
    /\ pc = "killed"
    /\ Len(records) = 2
    /\ records[1].text # <<>>
    /\ records[2].text # <<>>
    /\ disk = Banner \o records[1].text

\* The event being handled is dropped or ignored: a FocusIn on a window whose
\* name cannot be resolved or is empty, or an event of another kind.
Dropped ==
    \/ xev.type \notin {"FocusIn", "KeyPress"}
    \/ /\ xev.type = "FocusIn"
       /\ ~Named(xev.window) \/ NameOf(xev.window) = <<>>

\* C9: the iteration that handles a dropped or ignored event sends nothing
\* to the log or the console, raises no error and goes on to await the next
\* event.
C9_DroppedEvents ==
    [][(pc \in {"dispatch", "close"} /\ Dropped /\ pc' # "killed") =>
          /\ disk' = disk
          /\ console' = console
          /\ fp'.buf = <<>>
          /\ exitCode' = exitCode
          /\ pc' = IF pc = "dispatch" THEN "close" ELSE "await"]_vars

\* A dropped FocusIn and an ignored FocusOut were handled: log and console
\* are as they were.
C9_Witness ==
    /\ pc = "await"
    /\ Len(records) = 2
    /\ records[1].type = "FocusIn"
    /\ records[2].type = "FocusOut"
    /\ disk = Banner
    /\ console = <<>>

\* C10: once the loop runs, the one exit of the process is the failure to
\* open the log, taken at the start of an iteration with status 1; an
\* iteration under way ends, and unless the log could not be opened or the
\* process was killed it ends with the loop awaiting the next event, whatever
\* failed in handling the event.
C10_CaptureNeverHalts ==
    /\ [][(pc \in LoopPcs /\ pc' = "exit") => (pc = "reopen" /\ exitCode' = 1)]_vars
    /\ [](pc \in LoopPcs => exitCode = -1)
    /\ (pc \in {"reopen", "dispatch", "close"}) ~> (pc \in {"await", "exit", "killed"})

\* The loop awaits again after a focus record written without a time and a
\* key with neither characters nor a name.
C10_Witness ==
    /\ pc = "await"
    /\ Len(records) = 2
    /\ records[1].type = "FocusIn" /\ records[1].text # <<>>
    /\ clock.time = -1
    /\ records[2].type = "KeyPress" /\ xev.key = KeyNoSymbol

\* The Monitoring set: the windows whose name contains the designator when
\* there are any, else the whole hierarchy.
MonitoringSet == IF Matching # {} THEN Matching ELSE Hierarchy

\* C11: a window is never registered unless it is in the Monitoring set, and
\* then for exactly key-press and focus-change; once startup has selected,
\* every window of the Monitoring set is registered; and when some window
\* matched the designator, an iteration sends text to the log only for an
\* event delivered for a matched window.
C11_SubscriptionScope ==
    /\ [](\A w \in Windows :
             eventMask[w] # {} =>
                 /\ w \in MonitoringSet
                 /\ eventMask[w] = {KeyPressMask, FocusChangeMask})
    /\ [](SelectionDone =>
             \A w \in MonitoringSet : eventMask[w] = {KeyPressMask, FocusChangeMask})
    /\ [][(pc = "dispatch" /\ fp'.buf # fp.buf /\ Matching # {})
             => xev.window \in Matching]_vars

\* A focus record and a key were logged for the one matched window while
\* another window of the hierarchy and the root, both unregistered, have
\* titles, the root's containing the designator.
C11_Witness ==
    /\ pc = "await"
    /\ Len(records) = 2
    /\ records[1].type = "FocusIn" /\ records[1].text # <<>>
    /\ records[2].type = "KeyPress" /\ records[2].text # <<>>
    /\ Cardinality(Matching) = 1
    /\ xev.window \in Matching
    /\ \E w \in Hierarchy \ Matching : Named(w) /\ eventMask[w] = {}
    /\ Named(Root) /\ Contains(NameOf(Root), designated_name)

\* The walker has returned to snoop_windows.
WalkDone == pc \in {"select", "fallback", "openlog"}

\* C12: getWindowName returns the _NET_WM_NAME title when the window has
\* one, the WM_NAME title when it has only that, and no name when it has
\* neither; a window without a name is never in the match set, whatever the
\* designator, and the walker still visits its children.
C12_NameResolution ==
    /\ \A w \in Windows :
          LET n == getWindowName(w)
          IN  /\ props[w].net.present => (~n.null /\ n.s = props[w].net.val)
              /\ (~props[w].net.present /\ props[w].wm.present)
                     => (~n.null /\ n.s = props[w].wm.val)
              /\ (~props[w].net.present /\ ~props[w].wm.present) => n.null
    /\ \A w \in Windows :
          (~props[w].net.present /\ ~props[w].wm.present)
              => w \notin Range(matched_windows)
    /\ WalkDone =>
          \A w \in Hierarchy :
              (~props[w].net.present /\ ~props[w].wm.present /\ w # queryFails)
                  => \A c \in DOMAIN parent : parent[c] = w => c \in Range(visited)

\* The walk is over: a window with neither title was passed over and its
\* child, whose only title is the legacy one, was matched; another window
\* carries both titles.
C12_Witness ==
    /\ WalkDone
    /\ \E w \in Hierarchy, c \in Hierarchy :
          /\ ~props[w].net.present /\ ~props[w].wm.present
          /\ parent[c] = w
          /\ ~props[c].net.present /\ props[c].wm.present
          /\ c \in Range(matched_windows)
          /\ w \in Range(visited) \ Range(matched_windows)
    /\ \E v \in Hierarchy : props[v].net.present /\ props[v].wm.present

\* No discovery, no subscription and no log write has happened.
NothingDone ==
    /\ visited = <<>> /\ matched_windows = <<>> /\ matched_count = 0
    /\ selectCalls = <<>>
    /\ \A w \in Windows : eventMask[w] = {}
    /\ logAt = <<>> /\ disk \in OldLogPool /\ ~fp.open
    /\ console = <<>>

\* C13: the process exits with 1 when argv has no display or when the log
\* cannot be opened, at startup or in the loop, with 10 when the display
\* cannot be opened, and never with 0; an exit is the last step of the
\* process and changes nothing else, and after a missing argument or a
\* failed connection no discovery, subscription or log write has happened.
C13_ExitCodes ==
    /\ [](exitCode \in {-1, 1, 10})
    /\ []((pc = "exit") = (exitCode # -1))
    /\ []((exitCode = 10 \/ (exitCode = 1 /\ argc < 2)) => NothingDone)
    /\ [][pc # "exit"]_vars
    /\ [][(pc = "main" /\ argc < 2) => (pc' = "exit" /\ exitCode' = 1)]_vars
    /\ [][pc' = "exit" =>
            /\ UNCHANGED << heap, server, args, walk, io >>
            /\ \/ pc = "main" /\ argc < 2 /\ exitCode' = 1
               \/ pc = "connect" /\ exitCode' = 10
               \/ pc \in {"openlog", "reopen"} /\ exitCode' = 1]_vars

\* The process has exited with 10 and the log of an earlier run is untouched.
C13_Witness ==
    /\ pc = "exit"
    /\ exitCode = 10
    /\ disk # <<>>

RECURSIVE PreOrder(_), PreOrderAll(_)
PreOrder(w) ==
    <<w>> \o PreOrderAll(IF w = queryFails THEN <<>> ELSE ServerChildren(w))

PreOrderAll(ws) ==
    IF ws = <<>> THEN <<>> ELSE PreOrder(Head(ws)) \o PreOrderAll(Tail(ws))

Traversal == PreOrderAll(IF Root = queryFails THEN <<>> ELSE ServerChildren(Root))

\* C15: the walker tests the windows in pre-order, and matched_windows holds
\* the matching windows among those tested so far in that order; when the
\* walk is over it is the pre-order traversal restricted to the matching
\* windows.
C15_MatchOrder ==
    LET order == Traversal
        match == Matching
        Test(w) == w \in match
    IN  /\ Len(visited) <= Len(order)
        /\ visited = SubSeq(order, 1, Len(visited))
        /\ matched_windows = SelectSeq(visited, Test)
        /\ WalkDone => matched_windows = SelectSeq(order, Test)

\* Three matches: a child of the root, then that child's own child, then
\* the next child of the root.
C15_Witness ==
    /\ WalkDone
    /\ Len(matched_windows) = 3
    /\ parent[matched_windows[1]] = Root
    /\ parent[matched_windows[2]] = matched_windows[1]
    /\ parent[matched_windows[3]] = Root

\* C16: no step of the capture loop changes matched_windows, matched_count
\* or a window's event mask, or calls XSelectInput, whatever event it handles
\* and whatever titles the windows have been given since startup; the sets
\* are those the startup left when the first event was awaited.
C16_SetsImmutable ==
    /\ [][(pc \in LoopPcs) =>
            UNCHANGED << matched_windows, matched_count, eventMask, selectCalls >>]_vars
    /\ [](pc \in LoopPcs =>
            /\ matched_count = Len(matched_windows)
            /\ Range(selectCalls) = { w \in Windows : eventMask[w] # {} }
            /\ matched_count > 0 => Range(selectCalls) = Range(matched_windows))

\* Two events were handled after the one matched window lost its title: it
\* is still the match set and the subscribed set, though no window's name
\* contains the designator any more.
C16_Witness ==
    /\ pc = "await"
    /\ Len(records) = 2
    /\ records[1].type = "FocusIn"
    /\ records[2].type = "KeyPress"
    /\ matched_count = 1
    /\ Matching = {}
    /\ eventMask[matched_windows[1]] = {KeyPressMask, FocusChangeMask}

IsPrefix(s, u) == Len(s) <= Len(u) /\ SubSeq(u, 1, Len(s)) = s

\* C17: the one step that does not extend the log is the startup's, which
\* leaves it holding the banner line alone, and that step is never taken
\* from the loop; from then on the log starts with the banner and has
\* everything it held at an earlier await of the run as a prefix.
C17_AppendOnly ==
    /\ [][~IsPrefix(disk, disk') => (pc = "openlog" /\ disk' = Banner)]_vars
    /\ [][(pc = "openlog" /\ pc' = "await") => disk' = Banner]_vars
    /\ [][(pc \in LoopPcs) => (pc' # "openlog" /\ IsPrefix(disk, disk'))]_vars
    /\ [](logAt # <<>> =>
            /\ IsPrefix(Banner, disk)
            /\ \A k \in 1..Len(logAt) : IsPrefix(logAt[k], disk))

\* The log began as the banner alone and two iterations have each added to
\* it.
C17_Witness ==
    /\ pc = "await"
    /\ Len(logAt) = 3
    /\ logAt[1] = Banner
    /\ Len(logAt[1]) < Len(logAt[2])
    /\ Len(logAt[2]) < Len(logAt[3])
    /\ disk = logAt[3]

\* The routine that releases what a call allocated: free for the copy made
\* by strdup, XFree for the buffer XFetchName returned.
ProperRelease(by) == IF by = "strdup" THEN "free" ELSE "XFree"

\* C18: every name getWindowName returned, to the walker or to the loop, was
\* released exactly once, by the routine that goes with the call that
\* allocated it.
C18_NameOwnership ==
    \A k \in 1..Len(heap) :
        /\ Len(heap[k].released) = 1
        /\ heap[k].released[1] = ProperRelease(heap[k].by)

\* C19: TranslateKeyCode stores nothing outside the KEY_BUFF_SIZE bytes of
\* key_buff, the terminator at index count included, and every fragment it
\* returned is terminated inside the buffer.
C19_ScratchBounds ==
    /\ ~oob
    /\ Len(key_buff) <= KEY_BUFF_SIZE
    /\ \A k \in 1..Len(records) :
          records[k].translated => Len(records[k].frag) <= KEY_BUFF_SIZE - 1

\* C20: the root window is never name-tested, never put in matched_windows
\* and never passed to XSelectInput, in either branch and whatever its title.
C20_RootExcluded ==
    /\ Root \notin Range(visited)
    /\ Root \notin Range(matched_windows)
    /\ Root \notin Range(selectCalls)
    /\ eventMask[Root] = {}
    /\ \A w \in Windows : eventMask[w] # {} => w \in DOMAIN parent

\* The fallback branch has selected on the windows below the root: the
\* root's title contains the designator, no other window's does.
C20_Witness ==
    /\ pc = "openlog"
    /\ foundAnyMatches = 0
    /\ selectCalls # <<>>
    /\ Named(Root) /\ Contains(NameOf(Root), designated_name)
    /\ Matching = {}
    /\ eventMask[Root] = {}

====
